---- MODULE Spec2Model ----
(***************************************************************************)
(* Asynchronous entry-processing pipeline of the health diary server:      *)
(* the upload route, the transcription and analysis services and the       *)
(* background scheduler.  Every `await` of the source is one step, so the  *)
(* interleavings of the Node.js event loop are the interleavings of the    *)
(* model.  Record Store, Blob Store and polling calls may fail at any      *)
(* step (the callbacks' `err`, the SDK promises' rejections).              *)
(***************************************************************************)
EXTENDS Integers, Sequences, FiniteSets, TLC

\* ------------------------------------------------------------------ bounds
MaxEntries  == 2     \* uploads over one behaviour
MaxTicks    == 2     \* processJobs invocations over one behaviour
MaxInFlight == 2     \* upload handlers and processJobs invocations in flight at once
MaxUploading == 1   \* upload handlers in flight at once
MaxClock    == 1     \* distinct clock readings after the first
MaxFaults   == 1     \* failed Record Store, Blob Store and polling calls over one behaviour
MaxCrashes  == 1     \* crashes of the server process over one behaviour

EntryIds == 1..MaxEntries
TickIds  == 1..MaxTicks
Users    == {"u1"}
\* The users who call the entry routes: those who upload and one who owns
\* no entry.
Callers  == Users \cup {"u2"}
Reasons  == {"unsupported audio format", "internal failure"}

Nil      == <<>>
NoReason == "none"

Statuses == {"pending", "processing", "completed", "failed"}
Terminal == {"completed", "failed"}

\* ------------------------------------------------------------------- state
VARIABLES
  entries,     \* diary_entries rows, by entry id
  jobs,        \* processing_jobs rows, in insertion order
  blobs,       \* keys present in the S3 bucket
  prov,        \* Amazon Transcribe: state of the job submitted for an entry
  clock,       \* the last reading of the wall clock
  isRunning,   \* SchedulerService.isRunning
  processingInterval, \* SchedulerService.processingInterval holds a timer
  timers,      \* number of interval timers armed in the event loop
  ticks,       \* the processJobs invocations
  up,          \* the POST /upload handlers, by the entry id they draw
  calls,       \* number of Analysis Provider invocations per entry
  faults,      \* number of failed storage and polling calls so far
  wasFailed,   \* entries whose transcription_status has been set to failed
  crashes,     \* number of crashes of the server process so far
  conf,        \* calculateAverageConfidence: the items passed and the value returned
  runs,        \* two runs of the analysis of one entry under two users' preferences
  acc,         \* the GET /entries/:entryId or follow-up request being answered
  del          \* the DELETE /entries/:entryId handlers, by the entry id they name

vars == <<entries, jobs, blobs, prov, clock, isRunning, processingInterval,
          timers, ticks, up, calls, faults, wasFailed, crashes, conf, runs, acc, del>>

\* A row of diary_entries that has not been inserted.
NoEntry == [present |-> FALSE, user_id |-> "none", audio_s3_key |-> Nil,
            raw_transcript_s3_key |-> Nil, structured_summary_s3_key |-> Nil,
            transcription_status |-> "pending", analysis_status |-> "pending",
            updated_at |-> 0]

\* A row of processing_jobs that has been deleted.
NoJob == [entry_id |-> 0, job_type |-> "none", status |-> "none",
          aws_job_id |-> 0, error_message |-> NoReason]

\* A DELETE /entries/:entryId request that has not been made: `user_id` is
\* the caller, `entry` the row its SELECT returns, `attempted` the keys
\* passed to deleteFile.
NoDelete == [pc |-> "none", user_id |-> "none", entry |-> NoEntry, attempted |-> {}]

\* No GET /entries/:entryId or follow-up request is being answered: `route`
\* is the route called, `user_id` the caller, `entry` the row its SELECT
\* returned.
NoAccess == [route |-> "none", id |-> 0, user_id |-> "none", pc |-> "none",
             entry |-> NoEntry]

\* What Amazon Transcribe knows of a job that was never submitted.
NoProvJob == [status |-> "NONE", failureReason |-> NoReason, payload |-> "none"]

\* A processJobs invocation that has not been made.  `faulted` records that a
\* storage or polling call of the invocation has failed, `err` that the catch
\* the invocation is in was entered by such a call.
IdleTick == [pc |-> "idle", list |-> <<>>, failureReason |-> NoReason, key |-> Nil,
             faulted |-> FALSE, err |-> FALSE]

\* A user's preferences: the enabled rows of user_subjects and
\* users.interaction_style; here those of no user.
NoPreferences == [subjects |-> <<>>, interactionStyle |-> "none"]

\* No analysis has been run under any preferences.
NoRuns == [first |-> NoPreferences, second |-> NoPreferences,
           response |-> "none", outcome |-> <<>>]

\* calculateAverageConfidence has not returned.  A returned number is the
\* exact fraction num / den, den > 0.
NoResult == [num |-> 0, den |-> 0]

\* Blob keys: users/<user>/<folder>/<timestamp>-...
AudioKey(u, e)        == <<"audio-files", u, e>>
TranscriptKey(u, now) == <<"raw-transcripts", u, now>>
SummaryKey(u, now)    == <<"structured-summaries", u, now>>

\* Handlers between their first await and their return.
Uploading == Cardinality({e \in EntryIds : up[e].pc \notin {"none", "r201", "r500", "lost"}})

InFlight == Uploading + Cardinality({t \in TickIds : ticks[t].pc \notin {"idle", "done"}})

InitPipeline ==
  /\ entries = [e \in EntryIds |-> NoEntry]
  /\ jobs = <<>>
  /\ blobs = {}
  /\ prov = [e \in EntryIds |-> NoProvJob]
  /\ clock = 0
  /\ isRunning = FALSE
  /\ processingInterval = FALSE
  /\ timers = 0
  /\ ticks = [t \in TickIds |-> IdleTick]
  /\ up = [e \in EntryIds |-> [pc |-> "none", user_id |-> "none"]]
  /\ calls = [e \in EntryIds |-> 0]
  /\ faults = 0
  /\ wasFailed = {}
  /\ crashes = 0
  /\ del = [e \in EntryIds |-> NoDelete]
  /\ acc = NoAccess

Init ==
  /\ InitPipeline
  /\ conf = [items |-> <<>>, result |-> NoResult]
  /\ runs = NoRuns

\* ------------------------------------------------------------- environment
\* The call made by this step succeeds.
Ok == faults' = faults

\* The call made by this step fails (the callback's err, the promise's rejection).
Fail == faults < MaxFaults /\ faults' = faults + 1

\* new Date(): the reading is the last one or, when time has passed, the next.
Now == {n \in {clock, clock + 1} : n <= MaxClock}

\* Amazon Transcribe finishes a job: COMPLETED with a transcript file that
\* parses or does not, or FAILED with a reason.
ProviderFinish(e) ==
  /\ prov[e].status = "IN_PROGRESS"
  /\ \/ \E p \in {"ok", "malformed"} :
          prov' = [prov EXCEPT ![e] = [status |-> "COMPLETED",
                                       failureReason |-> NoReason, payload |-> p]]
     \/ \E r \in Reasons :
          prov' = [prov EXCEPT ![e] = [status |-> "FAILED",
                                       failureReason |-> r, payload |-> "none"]]
  /\ UNCHANGED <<entries, jobs, blobs, clock, isRunning, processingInterval,
                 timers, ticks, up, calls, faults, wasFailed, crashes, conf, runs, acc, del>>

\* ------------------------------------------------------------ Record Store
\* UPDATE diary_entries SET ... WHERE id = e: no row, no change.
UpdateEntry(e, fields) ==
  IF entries[e].present
  THEN [entries EXCEPT ![e] = [c \in DOMAIN entries[e] |->
          IF c \in DOMAIN fields THEN fields[c] ELSE entries[e][c]]]
  ELSE entries

\* CURRENT_TIMESTAMP in a statement: the time of the last reading of the
\* clock.
CurrentTimestamp == clock

\* UPDATE processing_jobs SET ... WHERE id = j: no row, no change.
UpdateJob(j, fields) ==
  IF jobs[j] = NoJob THEN jobs
  ELSE [jobs EXCEPT ![j] = [c \in DOMAIN jobs[j] |->
          IF c \in DOMAIN fields THEN fields[c] ELSE jobs[j][c]]]

\* SELECT pj.*, de.user_id FROM processing_jobs pj JOIN diary_entries de ...
\* WHERE pj.job_type = 'transcription' AND pj.status = 'processing':
\* the matching rows among the first n, in table order.
RECURSIVE ProcessingJobs(_)
ProcessingJobs(n) ==
  IF n = 0 THEN <<>>
  ELSE IF /\ jobs[n].job_type = "transcription"
          /\ jobs[n].status = "processing"
          /\ entries[jobs[n].entry_id].present
       THEN Append(ProcessingJobs(n - 1),
                   [id |-> n, entry_id |-> jobs[n].entry_id,
                    user_id |-> entries[jobs[n].entry_id].user_id,
                    aws_job_id |-> jobs[n].aws_job_id])
       ELSE ProcessingJobs(n - 1)

\* ---------------------------------------------------------- POST /upload
UploadFrame == <<isRunning, processingInterval, timers, ticks, calls, clock, crashes,
                conf, runs, acc, del>>

\* The handler up to uploadAudioFile: the audio goes to S3, or the request
\* ends with 500.
UploadAudio(e, u) ==
  /\ up[e].pc = "none"
  /\ \A d \in EntryIds : d < e => up[d].pc # "none"
  /\ InFlight < MaxInFlight
  /\ Uploading < MaxUploading
  /\ \/ /\ Ok
        /\ blobs' = blobs \cup {AudioKey(u, e)}
        /\ up' = [up EXCEPT ![e] = [pc |-> "insertEntry", user_id |-> u]]
     \/ /\ Fail
        /\ up' = [up EXCEPT ![e] = [pc |-> "r500", user_id |-> u]]
        /\ UNCHANGED blobs
  /\ UNCHANGED <<entries, jobs, prov, wasFailed, UploadFrame>>

\* INSERT INTO diary_entries (... 'pending', 'pending'); updated_at takes
\* its default, CURRENT_TIMESTAMP.
NewEntry(e) == [NoEntry EXCEPT !.present = TRUE,
                               !.user_id = up[e].user_id,
                               !.audio_s3_key = AudioKey(up[e].user_id, e),
                               !.updated_at = CurrentTimestamp]

UploadInsertEntry(e) ==
  /\ up[e].pc = "insertEntry"
  /\ \/ /\ Ok
        /\ entries' = [entries EXCEPT ![e] = NewEntry(e)]
        /\ up' = [up EXCEPT ![e].pc = "startJob"]
     \/ /\ Fail
        /\ up' = [up EXCEPT ![e].pc = "r500"]
        /\ UNCHANGED entries
  /\ UNCHANGED <<jobs, blobs, prov, wasFailed, UploadFrame>>

\* startTranscriptionJob: the submission, which Amazon Transcribe accepts
\* or rejects.
UploadStartJob(e) ==
  /\ up[e].pc = "startJob"
  /\ \/ /\ prov' = [prov EXCEPT ![e].status = "IN_PROGRESS"]
        /\ up' = [up EXCEPT ![e].pc = "insertJob"]
     \/ /\ up' = [up EXCEPT ![e].pc = "markFailed"]
        /\ UNCHANGED prov
  /\ UNCHANGED <<entries, jobs, blobs, faults, wasFailed, UploadFrame>>

\* startTranscriptionJob: INSERT INTO processing_jobs
\* (... 'transcription', 'processing', jobName).
NewJob(e) == [entry_id |-> e, job_type |-> "transcription", status |-> "processing",
              aws_job_id |-> e, error_message |-> NoReason]

UploadInsertJob(e) ==
  /\ up[e].pc = "insertJob"
  /\ \/ /\ Ok
        /\ jobs' = Append(jobs, NewJob(e))
        /\ up' = [up EXCEPT ![e].pc = "updateEntry"]
     \/ /\ Fail
        /\ up' = [up EXCEPT ![e].pc = "markFailed"]
        /\ UNCHANGED jobs
  /\ UNCHANGED <<entries, blobs, prov, wasFailed, UploadFrame>>

\* startTranscriptionJob: UPDATE diary_entries SET transcription_status = 'processing'.
UploadUpdateEntry(e) ==
  /\ up[e].pc = "updateEntry"
  /\ \/ /\ Ok
        /\ entries' = UpdateEntry(e, [transcription_status |-> "processing"])
        /\ up' = [up EXCEPT ![e].pc = "r201"]
     \/ /\ Fail
        /\ up' = [up EXCEPT ![e].pc = "markFailed"]
        /\ UNCHANGED entries
  /\ UNCHANGED <<jobs, blobs, prov, wasFailed, UploadFrame>>

\* Variant of the catch that submits the audio again instead of giving up.
UploadMarkFailed_Retry(e) ==
  /\ up[e].pc = "markFailed"
  /\ up' = [up EXCEPT ![e].pc = "startJob"]
  /\ UNCHANGED <<entries, jobs, blobs, prov, faults, wasFailed, UploadFrame>>

\* Variant of the route without its inner try: the error thrown by
\* startTranscriptionJob reaches the outer catch, which answers 500.
UploadMarkFailed_Propagates(e) ==
  /\ up[e].pc = "markFailed"
  /\ \/ /\ Ok
        /\ entries' = UpdateEntry(e, [transcription_status |-> "failed"])
        /\ wasFailed' = wasFailed \cup {e}
     \/ /\ Fail
        /\ UNCHANGED <<entries, wasFailed>>
  /\ up' = [up EXCEPT ![e].pc = "r500"]
  /\ UNCHANGED <<jobs, blobs, prov, UploadFrame>>

\* startTranscriptionJob's catch: UPDATE ... transcription_status = 'failed',
\* then throw; the route catches it and answers 201.
UploadMarkFailed(e) ==
  /\ up[e].pc = "markFailed"
  /\ \/ /\ Ok
        /\ entries' = UpdateEntry(e, [transcription_status |-> "failed"])
        /\ wasFailed' = wasFailed \cup {e}
     \/ /\ Fail
        /\ UNCHANGED <<entries, wasFailed>>
  /\ up' = [up EXCEPT ![e].pc = "r201"]
  /\ UNCHANGED <<jobs, blobs, prov, UploadFrame>>

\* --------------------------------------------------------------- scheduler
FreeTicks == {t \in TickIds : ticks[t].pc = "idle"}

SchedFrame == <<entries, jobs, blobs, prov, clock, up, calls, faults, wasFailed,
               crashes, conf, runs, acc, del>>

\* processJobs as it would be without its isRunning test: every call is a
\* new invocation.
ProcessJobsCall_NoTest ==
  /\ FreeTicks # {}
  /\ InFlight < MaxInFlight
  /\ LET t == CHOOSE x \in FreeTicks : \A y \in FreeTicks : x <= y
     IN ticks' = [ticks EXCEPT ![t].pc = "ensureS3Setup"]

\* processJobs up to its first await: nothing when the scheduler is not
\* running, else a new invocation waiting in ensureS3Setup.
ProcessJobsCall ==
  IF ~isRunning' THEN ticks' = ticks
  ELSE /\ FreeTicks # {}
       /\ InFlight < MaxInFlight
       /\ LET t == CHOOSE x \in FreeTicks : \A y \in FreeTicks : x <= y
          IN ticks' = [ticks EXCEPT ![t].pc = "ensureS3Setup"]

\* start() as it would be without its direct call of processJobs: the first
\* tick waits for the first firing of the timer.
Start_TimerOnly ==
  /\ IF isRunning
     THEN UNCHANGED <<isRunning, processingInterval, timers, ticks>>
     ELSE /\ isRunning' = TRUE
          /\ ticks' = ticks
          /\ processingInterval' = TRUE
          /\ timers' = timers + 1
  /\ UNCHANGED SchedFrame

\* start() as it would be without its isRunning test: every call runs a tick
\* and arms a timer.
Start_NoGuard ==
  /\ isRunning' = TRUE
  /\ ProcessJobsCall
  /\ processingInterval' = TRUE
  /\ timers' = timers + 1
  /\ UNCHANGED SchedFrame

\* start(): nothing when already running, else the first tick and the timer.
Start ==
  /\ IF isRunning
     THEN UNCHANGED <<isRunning, processingInterval, timers, ticks>>
     ELSE /\ isRunning' = TRUE
          /\ ProcessJobsCall
          /\ processingInterval' = TRUE
          /\ timers' = timers + 1
  /\ UNCHANGED SchedFrame

\* stop() as it would be were the timer left armed.
Stop_KeepsTimer ==
  /\ isRunning' = FALSE
  /\ UNCHANGED <<processingInterval, timers, ticks, SchedFrame>>

\* stop().
Stop ==
  /\ timers' = IF processingInterval THEN timers - 1 ELSE timers
  /\ processingInterval' = FALSE
  /\ isRunning' = FALSE
  /\ UNCHANGED <<ticks, SchedFrame>>

\* The setInterval callback.
IntervalFire ==
  /\ timers > 0
  /\ isRunning' = isRunning
  /\ ProcessJobsCall
  /\ UNCHANGED <<processingInterval, timers, SchedFrame>>

\* forceRun().
ForceRun ==
  /\ isRunning' = isRunning
  /\ ProcessJobsCall
  /\ UNCHANGED <<processingInterval, timers, SchedFrame>>

\* ------------------------------------------------------------ processJobs
TickFrame == <<isRunning, processingInterval, timers, up, crashes, conf, runs, acc, del>>

\* The invocation t, in the state tk, has met a failed call.
Faulted(t, tk) ==
  [tk EXCEPT ![t].faulted = TRUE,
             ![t].err = (tk[t].pc \in {"catchJob", "catchEntry"})]

Job(t)   == ticks[t].list[1]          \* the selected job row the loop is at
Entry(t) == ticks[t].list[1]          \* the selected entry row the loop is at

\* processJobs returns (or its catch has logged): the invocation is over.
Finish(t) == [ticks EXCEPT ![t] = [IdleTick EXCEPT !.pc = "done",
                                               !.faulted = ticks[t].faulted]]

\* ensureS3Setup: ensureBucketExists resolves, or it throws and the catch of
\* ensureS3Setup swallows the error; processJobs goes on either way.
EnsureS3Setup(t) ==
  /\ ticks[t].pc = "ensureS3Setup"
  /\ \E bucketOk \in BOOLEAN : ticks' = [ticks EXCEPT ![t].pc = "selectJobs"]
  /\ UNCHANGED <<entries, jobs, blobs, prov, calls, clock, faults, wasFailed, TickFrame>>

\* processCompletedJobs is done (db.close); processJobs goes on to
\* processCompletedTranscriptions, up to its SELECT.
ToAnalysis(t) == [ticks EXCEPT ![t] = [IdleTick EXCEPT !.pc = "selectEntries",
                                                   !.faulted = ticks[t].faulted]]

\* The loop of processCompletedJobs moves to the next selected job.
NextJob(t) ==
  IF Len(ticks[t].list) > 1
  THEN [ticks EXCEPT ![t] = [IdleTick EXCEPT !.pc = "checkStatus",
                                             !.list = Tail(ticks[t].list),
                                             !.faulted = ticks[t].faulted]]
  ELSE ToAnalysis(t)

\* The per-job catch of processCompletedJobs.
CatchJob(t) == [ticks EXCEPT ![t].pc = "catchJob"]

\* SelectJobs as it would be were processJobs without its try block: the
\* rejection of the SELECT is unhandled and ends the process, the timer and
\* the running flag with it.
SelectJobs_Uncaught(t) ==
  /\ ticks[t].pc = "selectJobs"
  /\ \/ /\ Ok
        /\ LET rows == ProcessingJobs(Len(jobs))
           IN ticks' = IF rows = <<>> THEN ToAnalysis(t)
                       ELSE [ticks EXCEPT ![t].pc = "checkStatus", ![t].list = rows]
        /\ UNCHANGED <<isRunning, processingInterval, timers>>
     \/ /\ Fail
        /\ ticks' = Faulted(t, Finish(t))
        /\ isRunning' = FALSE
        /\ processingInterval' = FALSE
        /\ timers' = 0
  /\ UNCHANGED <<entries, jobs, blobs, prov, calls, clock, wasFailed, up, crashes, conf, runs, acc, del>>

\* processCompletedJobs: the SELECT of the processing transcription jobs.
\* A failed SELECT rejects, and the catch of processJobs ends the tick.
SelectJobs(t) ==
  /\ ticks[t].pc = "selectJobs"
  /\ \/ /\ Ok
        /\ LET rows == ProcessingJobs(Len(jobs))
           IN ticks' = IF rows = <<>> THEN ToAnalysis(t)
                       ELSE [ticks EXCEPT ![t].pc = "checkStatus", ![t].list = rows]
     \/ /\ Fail
        /\ ticks' = Faulted(t, Finish(t))
  /\ UNCHANGED <<entries, jobs, blobs, prov, calls, clock, wasFailed, TickFrame>>

\* Variant that takes every status but COMPLETED for a failure.
AfterStatus_ElseFailed(t, status) ==
  IF status.status = "COMPLETED"
    THEN [ticks EXCEPT ![t].pc = "getResult"]
  ELSE [ticks EXCEPT ![t].pc = "updateJobFailed",
                     ![t].failureReason = status.failureReason]

\* checkTranscriptionStatus(job.aws_job_id): getTranscriptionJob answers
\* with the job's status, or throws.
AfterStatus(t, status) ==
  IF status.status = "COMPLETED"
    THEN [ticks EXCEPT ![t].pc = "getResult"]
  ELSE IF status.status = "FAILED"
    THEN [ticks EXCEPT ![t].pc = "updateJobFailed",
                       ![t].failureReason = status.failureReason]
  ELSE NextJob(t)

\* Variant that takes a query that throws for a reported failure.
CheckStatus_FailOnError(t) ==
  /\ ticks[t].pc = "checkStatus"
  /\ \/ /\ Ok
        /\ ticks' = AfterStatus(t, prov[Job(t).aws_job_id])
     \/ /\ Fail
        /\ ticks' = Faulted(t, [ticks EXCEPT ![t].pc = "updateJobFailed"])
  /\ UNCHANGED <<entries, jobs, blobs, prov, calls, clock, wasFailed, TickFrame>>

CheckStatus(t) ==
  /\ ticks[t].pc = "checkStatus"
  /\ \/ /\ Ok
        /\ ticks' = AfterStatus(t, prov[Job(t).aws_job_id])
     \/ /\ Fail
        /\ ticks' = Faulted(t, CatchJob(t))
  /\ UNCHANGED <<entries, jobs, blobs, prov, calls, clock, wasFailed, TickFrame>>

\* getTranscriptionResult: the transcript file is read from S3 and parsed
\* (a file that does not parse throws); then the key of the markdown
\* transcript is stamped with the time.
GetResult(t) ==
  /\ ticks[t].pc = "getResult"
  /\ \/ /\ Ok
        /\ IF prov[Job(t).aws_job_id].payload = "ok"
           THEN \E now \in Now :
                  /\ clock' = now
                  /\ ticks' = [ticks EXCEPT ![t].pc = "uploadTranscript",
                                 ![t].key = TranscriptKey(Job(t).user_id, now)]
           ELSE /\ ticks' = CatchJob(t)
                /\ UNCHANGED clock
     \/ /\ Fail
        /\ ticks' = Faulted(t, CatchJob(t))
        /\ UNCHANGED clock
  /\ UNCHANGED <<entries, jobs, blobs, prov, calls, wasFailed, TickFrame>>

\* uploadTextFile of the markdown transcript.
UploadTranscript(t) ==
  /\ ticks[t].pc = "uploadTranscript"
  /\ \/ /\ Ok
        /\ blobs' = blobs \cup {ticks[t].key}
        /\ ticks' = [ticks EXCEPT ![t].pc = "updateEntryCompleted"]
     \/ /\ Fail
        /\ ticks' = Faulted(t, CatchJob(t))
        /\ UNCHANGED blobs
  /\ UNCHANGED <<entries, jobs, prov, calls, clock, wasFailed, TickFrame>>

\* Variant of the UPDATE that sets the status and leaves the key.
CompletedFields_NoKey(t) == [transcription_status |-> "completed",
                             updated_at |-> CurrentTimestamp]

\* UPDATE diary_entries SET transcription_status = 'completed',
\* raw_transcript_s3_key = transcriptKey, updated_at = CURRENT_TIMESTAMP
\* WHERE id = job.entry_id.
CompletedFields(t) == [transcription_status |-> "completed",
                       raw_transcript_s3_key |-> ticks[t].key,
                       updated_at |-> CurrentTimestamp]

UpdateEntryCompleted(t) ==
  /\ ticks[t].pc = "updateEntryCompleted"
  /\ \/ /\ Ok
        /\ entries' = UpdateEntry(Job(t).entry_id, CompletedFields(t))
        /\ ticks' = [ticks EXCEPT ![t].pc = "updateJobCompleted"]
     \/ /\ Fail
        /\ ticks' = Faulted(t, CatchJob(t))
        /\ UNCHANGED entries
  /\ UNCHANGED <<jobs, blobs, prov, calls, clock, wasFailed, TickFrame>>

\* Variant that goes on to the next job without the UPDATE.
UpdateJobCompleted_Skip(t) ==
  /\ ticks[t].pc = "updateJobCompleted"
  /\ ticks' = NextJob(t)
  /\ UNCHANGED <<entries, jobs, blobs, prov, calls, clock, faults, wasFailed, TickFrame>>

\* UPDATE processing_jobs SET status = 'completed' WHERE id = job.id.
UpdateJobCompleted(t) ==
  /\ ticks[t].pc = "updateJobCompleted"
  /\ \/ /\ Ok
        /\ jobs' = UpdateJob(Job(t).id, [status |-> "completed"])
        /\ ticks' = NextJob(t)
     \/ /\ Fail
        /\ ticks' = Faulted(t, CatchJob(t))
        /\ UNCHANGED jobs
  /\ UNCHANGED <<entries, blobs, prov, calls, clock, wasFailed, TickFrame>>

\* Variant of the UPDATE that records the reason and leaves the status.
FailedFields_ReasonOnly(t) == [error_message |-> ticks[t].failureReason]

\* UPDATE processing_jobs SET status = 'failed', error_message =
\* status.failureReason WHERE id = job.id.
FailedFields(t) == [status |-> "failed", error_message |-> ticks[t].failureReason]

UpdateJobFailed(t) ==
  /\ ticks[t].pc = "updateJobFailed"
  /\ \/ /\ Ok
        /\ jobs' = UpdateJob(Job(t).id, FailedFields(t))
        /\ ticks' = [ticks EXCEPT ![t].pc = "updateEntryFailed"]
     \/ /\ Fail
        /\ ticks' = Faulted(t, CatchJob(t))
        /\ UNCHANGED jobs
  /\ UNCHANGED <<entries, blobs, prov, calls, clock, wasFailed, TickFrame>>

\* UPDATE diary_entries SET transcription_status = 'failed' WHERE id = job.entry_id.
UpdateEntryFailed(t) ==
  /\ ticks[t].pc = "updateEntryFailed"
  /\ \/ /\ Ok
        /\ entries' = UpdateEntry(Job(t).entry_id, [transcription_status |-> "failed"])
        /\ wasFailed' = wasFailed \cup {Job(t).entry_id}
        /\ ticks' = NextJob(t)
     \/ /\ Fail
        /\ ticks' = Faulted(t, CatchJob(t))
        /\ UNCHANGED <<entries, wasFailed>>
  /\ UNCHANGED <<jobs, blobs, prov, calls, clock, TickFrame>>

\* The catch has logged the error; the loop goes on with the next job.
AfterCatchJob(t) ==
  /\ ticks[t].pc = "catchJob"
  /\ ticks' = NextJob(t)
  /\ UNCHANGED <<entries, jobs, blobs, prov, calls, clock, faults, wasFailed, TickFrame>>

\* -------------------------------------------- processCompletedTranscriptions
\* SELECT de.*, u.interaction_style FROM diary_entries de JOIN users u
\* WHERE transcription_status = 'completed' AND analysis_status = 'pending'
\* AND raw_transcript_s3_key IS NOT NULL: the matching rows among the first n.
RECURSIVE CompletedTranscriptions(_)
CompletedTranscriptions(n) ==
  IF n = 0 THEN <<>>
  ELSE IF /\ entries[n].present
          /\ entries[n].transcription_status = "completed"
          /\ entries[n].analysis_status = "pending"
          /\ entries[n].raw_transcript_s3_key # Nil
       THEN Append(CompletedTranscriptions(n - 1),
                   [id |-> n, user_id |-> entries[n].user_id,
                    raw_transcript_s3_key |-> entries[n].raw_transcript_s3_key])
       ELSE CompletedTranscriptions(n - 1)

\* The loop of processCompletedTranscriptions moves to the next selected
\* entry; after the last one db.close, and processJobs returns.
NextEntry(t) ==
  IF Len(ticks[t].list) > 1
  THEN [ticks EXCEPT ![t] = [IdleTick EXCEPT !.pc = "markProcessing",
                                             !.list = Tail(ticks[t].list),
                                             !.faulted = ticks[t].faulted]]
  ELSE Finish(t)

\* The per-entry catch of processCompletedTranscriptions.
CatchEntry(t) == [ticks EXCEPT ![t].pc = "catchEntry"]

\* The SELECT.  When it fails the function rejects and processJobs logs it.
SelectEntries(t) ==
  /\ ticks[t].pc = "selectEntries"
  /\ \/ /\ Ok
        /\ LET rows == CompletedTranscriptions(MaxEntries)
           IN ticks' = IF rows = <<>> THEN Finish(t)
                       ELSE [ticks EXCEPT ![t].pc = "markProcessing", ![t].list = rows]
     \/ /\ Fail
        /\ ticks' = Faulted(t, Finish(t))
  /\ UNCHANGED <<entries, jobs, blobs, prov, calls, clock, wasFailed, TickFrame>>

\* UPDATE diary_entries SET analysis_status = 'processing' WHERE id = entry.id.
MarkProcessing(t) ==
  /\ ticks[t].pc = "markProcessing"
  /\ \/ /\ Ok
        /\ entries' = UpdateEntry(Entry(t).id, [analysis_status |-> "processing"])
        /\ ticks' = [ticks EXCEPT ![t].pc = "getSubjects"]
     \/ /\ Fail
        /\ ticks' = Faulted(t, CatchEntry(t))
        /\ UNCHANGED entries
  /\ UNCHANGED <<jobs, blobs, prov, calls, clock, wasFailed, TickFrame>>

\* SELECT subject FROM user_subjects WHERE user_id = entry.user_id.
GetSubjects(t) ==
  /\ ticks[t].pc = "getSubjects"
  /\ \/ /\ Ok
        /\ ticks' = [ticks EXCEPT ![t].pc = "getTranscript"]
     \/ /\ Fail
        /\ ticks' = Faulted(t, CatchEntry(t))
  /\ UNCHANGED <<entries, jobs, blobs, prov, calls, clock, wasFailed, TickFrame>>

\* getFileContent(entry.raw_transcript_s3_key): a missing key throws.
GetTranscript(t) ==
  /\ ticks[t].pc = "getTranscript"
  /\ \/ /\ Ok
        /\ ticks' = IF Entry(t).raw_transcript_s3_key \in blobs
                    THEN [ticks EXCEPT ![t].pc = "analyze"]
                    ELSE CatchEntry(t)
     \/ /\ Fail
        /\ ticks' = Faulted(t, CatchEntry(t))
  /\ UNCHANGED <<entries, jobs, blobs, prov, calls, clock, wasFailed, TickFrame>>

\* analyzeHealthDiary: the Anthropic call.  It answers JSON that the caller
\* can store ("ok"), JSON whose metadata cannot be read ("shape": the value
\* null, reading its metadata throws in the caller), text that does not parse
\* or an API error (both success: false).
AnalysisResults == {"ok", "shape", "unparsable", "apierror"}

AfterAnalysis(t, r, now) ==
  IF r = "ok"
    THEN [ticks EXCEPT ![t].pc = "uploadSummary",
                       ![t].key = SummaryKey(Entry(t).user_id, now)]
  ELSE IF r = "shape" THEN CatchEntry(t)
  ELSE [ticks EXCEPT ![t].pc = "markAnalysisFailed"]

Analyze(t) ==
  /\ ticks[t].pc = "analyze"
  /\ calls' = [calls EXCEPT ![Entry(t).id] = @ + 1]
  /\ \E r \in AnalysisResults, now \in Now :
       /\ clock' = IF r = "ok" THEN now ELSE clock
       /\ ticks' = AfterAnalysis(t, r, now)
  /\ UNCHANGED <<entries, jobs, blobs, prov, faults, wasFailed, TickFrame>>

\* uploadTextFile of the structured summary.
UploadSummary(t) ==
  /\ ticks[t].pc = "uploadSummary"
  /\ \/ /\ Ok
        /\ blobs' = blobs \cup {ticks[t].key}
        /\ ticks' = [ticks EXCEPT ![t].pc = "updateAnalysisCompleted"]
     \/ /\ Fail
        /\ ticks' = Faulted(t, CatchEntry(t))
        /\ UNCHANGED blobs
  /\ UNCHANGED <<entries, jobs, prov, calls, clock, wasFailed, TickFrame>>

\* UPDATE diary_entries SET analysis_status = 'completed',
\* structured_summary_s3_key = summaryKey WHERE id = entry.id.
AnalysedFields(t) == [analysis_status |-> "completed",
                      structured_summary_s3_key |-> ticks[t].key,
                      updated_at |-> CurrentTimestamp]

UpdateAnalysisCompleted(t) ==
  /\ ticks[t].pc = "updateAnalysisCompleted"
  /\ \/ /\ Ok
        /\ entries' = UpdateEntry(Entry(t).id, AnalysedFields(t))
        /\ ticks' = NextEntry(t)
     \/ /\ Fail
        /\ ticks' = Faulted(t, CatchEntry(t))
        /\ UNCHANGED entries
  /\ UNCHANGED <<jobs, blobs, prov, calls, clock, wasFailed, TickFrame>>

\* analysisResult.success is false:
\* UPDATE diary_entries SET analysis_status = 'failed' WHERE id = entry.id.
MarkAnalysisFailed(t) ==
  /\ ticks[t].pc = "markAnalysisFailed"
  /\ \/ /\ Ok
        /\ entries' = UpdateEntry(Entry(t).id, [analysis_status |-> "failed"])
        /\ ticks' = NextEntry(t)
     \/ /\ Fail
        /\ ticks' = Faulted(t, CatchEntry(t))
        /\ UNCHANGED entries
  /\ UNCHANGED <<jobs, blobs, prov, calls, clock, wasFailed, TickFrame>>

\* The catch: UPDATE ... analysis_status = 'failed'.  When this UPDATE fails
\* too, processCompletedTranscriptions rejects and processJobs logs it.
AfterCatchEntry(t) ==
  /\ ticks[t].pc = "catchEntry"
  /\ \/ /\ Ok
        /\ entries' = UpdateEntry(Entry(t).id, [analysis_status |-> "failed"])
        /\ ticks' = NextEntry(t)
     \/ /\ Fail
        /\ ticks' = Faulted(t, Finish(t))
        /\ UNCHANGED entries
  /\ UNCHANGED <<jobs, blobs, prov, calls, clock, wasFailed, TickFrame>>

\* ------------------------------------------------------------------- system
Next ==
  \/ \E e \in EntryIds : ProviderFinish(e)
  \/ \E e \in EntryIds, u \in Users : UploadAudio(e, u)
  \/ \E e \in EntryIds : UploadInsertEntry(e)
  \/ \E e \in EntryIds : UploadStartJob(e)
  \/ \E e \in EntryIds : UploadInsertJob(e)
  \/ \E e \in EntryIds : UploadUpdateEntry(e)
  \/ \E e \in EntryIds : UploadMarkFailed(e)
  \/ Start
  \/ Stop
  \/ IntervalFire
  \/ ForceRun
  \/ \E t \in TickIds : EnsureS3Setup(t)
  \/ \E t \in TickIds : SelectJobs(t)
  \/ \E t \in TickIds : CheckStatus(t)
  \/ \E t \in TickIds : GetResult(t)
  \/ \E t \in TickIds : UploadTranscript(t)
  \/ \E t \in TickIds : UpdateEntryCompleted(t)
  \/ \E t \in TickIds : UpdateJobCompleted(t)
  \/ \E t \in TickIds : UpdateJobFailed(t)
  \/ \E t \in TickIds : UpdateEntryFailed(t)
  \/ \E t \in TickIds : AfterCatchJob(t)
  \/ \E t \in TickIds : SelectEntries(t)
  \/ \E t \in TickIds : MarkProcessing(t)
  \/ \E t \in TickIds : GetSubjects(t)
  \/ \E t \in TickIds : GetTranscript(t)
  \/ \E t \in TickIds : Analyze(t)
  \/ \E t \in TickIds : UploadSummary(t)
  \/ \E t \in TickIds : UpdateAnalysisCompleted(t)
  \/ \E t \in TickIds : MarkAnalysisFailed(t)
  \/ \E t \in TickIds : AfterCatchEntry(t)

Spec == Init /\ [][Next]_vars

\* Two runs of processJobs in succession: the second invocation is made when
\* the first has returned, and from the first invocation on no upload handler
\* moves and Amazon Transcribe changes no job's state.
Quiet == \A e \in EntryIds : up[e].pc \in {"none", "r201", "r500", "lost"}

InSuccession ==
  /\ ticks[1].pc # "idle" => prov' = prov /\ up' = up
  /\ \A t \in TickIds :
       ticks[t].pc = "idle" /\ ticks'[t].pc # "idle"
         => Quiet /\ \A x \in TickIds : ticks[x].pc \in {"idle", "done"}

NextInSuccession ==
  \/ \E e \in EntryIds : ProviderFinish(e) /\ InSuccession
  \/ \E e \in EntryIds, u \in Users : UploadAudio(e, u) /\ InSuccession
  \/ \E e \in EntryIds : UploadInsertEntry(e) /\ InSuccession
  \/ \E e \in EntryIds : UploadStartJob(e) /\ InSuccession
  \/ \E e \in EntryIds : UploadInsertJob(e) /\ InSuccession
  \/ \E e \in EntryIds : UploadUpdateEntry(e) /\ InSuccession
  \/ \E e \in EntryIds : UploadMarkFailed(e) /\ InSuccession
  \/ Start /\ InSuccession
  \/ Stop /\ InSuccession
  \/ IntervalFire /\ InSuccession
  \/ ForceRun /\ InSuccession
  \/ \E t \in TickIds : EnsureS3Setup(t) /\ InSuccession
  \/ \E t \in TickIds : SelectJobs(t) /\ InSuccession
  \/ \E t \in TickIds : CheckStatus(t) /\ InSuccession
  \/ \E t \in TickIds : GetResult(t) /\ InSuccession
  \/ \E t \in TickIds : UploadTranscript(t) /\ InSuccession
  \/ \E t \in TickIds : UpdateEntryCompleted(t) /\ InSuccession
  \/ \E t \in TickIds : UpdateJobCompleted(t) /\ InSuccession
  \/ \E t \in TickIds : UpdateJobFailed(t) /\ InSuccession
  \/ \E t \in TickIds : UpdateEntryFailed(t) /\ InSuccession
  \/ \E t \in TickIds : AfterCatchJob(t) /\ InSuccession
  \/ \E t \in TickIds : SelectEntries(t) /\ InSuccession
  \/ \E t \in TickIds : MarkProcessing(t) /\ InSuccession
  \/ \E t \in TickIds : GetSubjects(t) /\ InSuccession
  \/ \E t \in TickIds : GetTranscript(t) /\ InSuccession
  \/ \E t \in TickIds : Analyze(t) /\ InSuccession
  \/ \E t \in TickIds : UploadSummary(t) /\ InSuccession
  \/ \E t \in TickIds : UpdateAnalysisCompleted(t) /\ InSuccession
  \/ \E t \in TickIds : MarkAnalysisFailed(t) /\ InSuccession
  \/ \E t \in TickIds : AfterCatchEntry(t) /\ InSuccession

SpecInSuccession == Init /\ [][NextInSuccession]_vars

\* ------------------------------------------------------------------ claims
Running(t) == ticks[t].pc \notin {"idle", "done"}
InStage(t) == Running(t) /\ ticks[t].pc # "ensureS3Setup"
JobIds     == 1..Len(jobs)

\* C1: at most one tick of the scheduler runs stage work at any time.
C1_OneTickAtATime ==
  \A t1, t2 \in TickIds : InStage(t1) /\ InStage(t2) => t1 = t2

\* C2: a transcription or analysis status that is completed or failed is
\* never changed by a later write.
C2_TerminalIsFinal ==
  [][\A e \in EntryIds :
       /\ entries[e].transcription_status \in Terminal
            => entries'[e].transcription_status = entries[e].transcription_status
       /\ entries[e].analysis_status \in Terminal
            => entries'[e].analysis_status = entries[e].analysis_status]_vars

\* C3: the analysis status leaves pending only while the transcription status
\* is completed and the transcript key is set.
C3_AnalysisGated ==
  [][\A e \in EntryIds :
       entries[e].present /\ entries[e].analysis_status = "pending"
         /\ entries'[e].analysis_status # "pending"
       => /\ entries[e].transcription_status = "completed"
          /\ entries[e].raw_transcript_s3_key # Nil]_vars

\* C4: the Analysis Provider is invoked at most once per entry.
C4_AnalysedOnce == \A e \in EntryIds : calls[e] <= 1

\* The entry's transcription job rows in status processing.
ProcessingJobsOf(e) ==
  {j \in JobIds : /\ jobs[j].entry_id = e
                  /\ jobs[j].job_type = "transcription"
                  /\ jobs[j].status = "processing"}

\* C5: an entry never has two transcription jobs in status processing.
C5_OneProcessingJob == \A e \in EntryIds : Cardinality(ProcessingJobsOf(e)) <= 1

\* C5 witness: after a tick that met a failed call, another tick polls an
\* entry's processing job, and that row is the entry's only processing job.
C5_Witness ==
  \E t, t1 \in TickIds :
    /\ ticks[t1].pc = "done" /\ ticks[t1].faulted
    /\ ticks[t].pc = "checkStatus"
    /\ ProcessingJobsOf(Job(t).entry_id) = {Job(t).id}

\* C6: a transcript key or summary key that is set is never replaced by
\* another value.
C6_WriteOnce ==
  [][\A e \in EntryIds :
       /\ entries[e].raw_transcript_s3_key # Nil
            => entries'[e].raw_transcript_s3_key = entries[e].raw_transcript_s3_key
       /\ entries[e].structured_summary_s3_key # Nil
            => entries'[e].structured_summary_s3_key
                 = entries[e].structured_summary_s3_key]_vars

\* C7: a completed transcription has its transcript key and a completed
\* analysis has its summary key.
C7_CompletedHasRef ==
  \A e \in EntryIds :
    /\ entries[e].transcription_status = "completed"
         => entries[e].raw_transcript_s3_key # Nil
    /\ entries[e].analysis_status = "completed"
         => entries[e].structured_summary_s3_key # Nil

\* C7 witness: an entry with both stages completed.
C7_Witness ==
  \E e \in EntryIds :
    /\ entries[e].transcription_status = "completed"
    /\ entries[e].analysis_status = "completed"

\* The awaits of the two stages that write to the Record Store or Blob Store.
WritingPcs == {"uploadTranscript", "updateEntryCompleted", "updateJobCompleted",
               "updateJobFailed", "updateEntryFailed", "markProcessing",
               "uploadSummary", "updateAnalysisCompleted", "markAnalysisFailed",
               "catchEntry"}

\* The step is a write of the invocation t that succeeds.
WriteStep(t) ==
  ticks[t].pc \in WritingPcs /\ ticks'[t] # ticks[t] /\ faults' = faults

PollThrows(t) == ticks[t].pc = "checkStatus" /\ ticks'[t].pc = "catchJob"

\* The step is the SELECT of processing jobs of the invocation t answering.
Selects(t) ==
  ticks[t].pc = "selectJobs" /\ ticks'[t].pc # "selectJobs" /\ faults' = faults

\* C9: a status query that throws changes no job row and no entry row, so
\* the job stays processing; every SELECT of the reconcile step returns every
\* processing job, so the job is queried again by the next tick; and a job
\* row is failed only if the provider reports FAILED.
C9_PollErrorKeepsJob ==
  /\ [][\A t \in TickIds :
          PollThrows(t) =>
            /\ jobs' = jobs
            /\ entries' = entries
            /\ jobs'[Job(t).id].status = jobs[Job(t).id].status]_vars
  /\ [][\A t \in TickIds :
          Selects(t) =>
            \A j \in JobIds :
              jobs[j].status = "processing"
                => \E i \in DOMAIN ticks'[t].list : ticks'[t].list[i].id = j]_vars
  /\ [](\A j \in JobIds :
          jobs[j].status = "failed" => prov[jobs[j].aws_job_id].status = "FAILED")

\* C9 witness: the query for a job the provider is still working on has
\* thrown, and the job row is processing.
C9_Witness ==
  \E t \in TickIds :
    /\ ticks[t].pc = "catchJob" /\ ticks[t].faulted
    /\ prov[Job(t).aws_job_id].status = "IN_PROGRESS"
    /\ jobs[Job(t).id].status = "processing"

\* An invocation is between the two updates of the FAILED branch for job j.
BetweenFailedUpdates(j) ==
  \E t \in TickIds : ticks[t].pc = "updateEntryFailed" /\ Job(t).id = j

\* C10: a job row that the reconcile step has set to failed carries the
\* provider's failure reason, and its entry's transcription status is failed
\* once the step is past the two updates of its FAILED branch.
C10_ProviderFailure ==
  \A j \in JobIds :
    jobs[j].status = "failed" =>
      /\ jobs[j].error_message = prov[jobs[j].aws_job_id].failureReason
      /\ (\/ BetweenFailedUpdates(j)
          \/ entries[jobs[j].entry_id].transcription_status = "failed")

\* C11: once an entry's transcription status has been failed, its analysis
\* status stays pending and the Analysis Provider is not invoked for it.
C11_FailedNeverAnalysed ==
  [][\A e \in wasFailed :
       /\ entries[e].analysis_status = "pending"
            => entries'[e].analysis_status = "pending"
       /\ calls'[e] = calls[e]]_vars

\* C12: when startTranscriptionJob has failed, the entry's transcription
\* status is failed and the entry has no transcription job row in processing.
C12_StartFailureLeavesNoJob ==
  [][\A e \in EntryIds :
       up[e].pc = "markFailed" /\ up'[e].pc = "r201"
         => /\ entries'[e].transcription_status = "failed"
            /\ ProcessingJobsOf(e) = {}]_vars

\* The step is the invocation t recording a failed analysis: the UPDATE after
\* a response that is no success, or the UPDATE of the catch.
RecordsAnalysisFailure(t) ==
  /\ ticks[t].pc \in {"markAnalysisFailed", "catchEntry"}
  /\ ticks'[t] # ticks[t]
  /\ faults' = faults

\* C13: when an analysis that failed or did not parse has been recorded, the
\* entry's analysis status is failed and its summary key is not set; and in
\* every state an entry whose analysis status is failed has no summary key.
C13_FailedAnalysisHasNoSummary ==
  /\ [][\A t \in TickIds :
          RecordsAnalysisFailure(t) =>
            /\ entries'[Entry(t).id].analysis_status = "failed"
            /\ entries'[Entry(t).id].structured_summary_s3_key = Nil]_vars
  /\ [](\A e \in EntryIds :
          entries[e].analysis_status = "failed"
            => entries[e].structured_summary_s3_key = Nil)

\* The step is the invocation t leaving the catch it entered because a call
\* made for the job or entry at hand failed.
LeavesCatchOfFailedCall(t) == ticks[t].err /\ ticks'[t] # ticks[t]

\* C14: when a storage call made for a job or entry has failed and the catch
\* is over, the item is as it was selected, to be selected again: in the
\* transcription stage the job row is processing and the entry does not carry
\* the key this tick stamped; in the analysis stage the entry's transcription
\* is completed, its analysis status pending and its summary key not set.
C14_StorageErrorLeavesEntry ==
  [][\A t \in TickIds :
       LeavesCatchOfFailedCall(t) =>
         /\ ticks[t].pc = "catchJob" =>
              /\ jobs'[Job(t).id].status = "processing"
              /\ ticks[t].key # Nil =>
                   entries'[Job(t).entry_id].raw_transcript_s3_key # ticks[t].key
         /\ ticks[t].pc = "catchEntry" =>
              /\ entries'[Entry(t).id].transcription_status = "completed"
              /\ entries'[Entry(t).id].analysis_status = "pending"
              /\ entries'[Entry(t).id].structured_summary_s3_key = Nil]_vars

\* getTranscriptionResult threw on a COMPLETED job whose transcript file does
\* not parse, and the tick now leaves the per-job catch.
LeavesCatchOfUnparsableTranscript(t) ==
  /\ ticks[t].pc = "catchJob"
  /\ ~ticks[t].err
  /\ prov[Job(t).aws_job_id].status = "COMPLETED"
  /\ prov[Job(t).aws_job_id].payload = "malformed"
  /\ ticks'[t] # ticks[t]

\* C15: an error of result shape is terminal.  A job the provider reports
\* COMPLETED whose transcript cannot be parsed ends with the job and its
\* entry failed, and an analysis response that cannot be used ends with
\* analysis_status failed.
C15_ShapeErrorIsTerminal ==
  [][\A t \in TickIds :
       /\ LeavesCatchOfUnparsableTranscript(t) =>
            /\ jobs'[Job(t).id].status = "failed"
            /\ entries'[Job(t).entry_id].transcription_status = "failed"
       /\ RecordsAnalysisFailure(t) =>
            entries'[Entry(t).id].analysis_status = "failed"]_vars

\* The tick leaves the catch of a loop body while items selected after the
\* failed one are still to be handled.
LeavesCatchWithItemsLeft(t) ==
  /\ ticks[t].pc \in {"catchJob", "catchEntry"}
  /\ Len(ticks[t].list) > 1
  /\ ticks'[t] # ticks[t]

\* C16: within one tick a failure while one job or entry is handled never
\* keeps the remaining jobs or entries of that tick from being handled: after
\* the catch the loop is at the next selected item of the same stage.
C16_FailureSkipsNothing ==
  [][\A t \in TickIds : LeavesCatchWithItemsLeft(t) =>
       /\ ticks'[t].list = Tail(ticks[t].list)
       /\ ticks'[t].pc = IF ticks[t].pc = "catchJob" THEN "checkStatus"
                                                    ELSE "markProcessing"]_vars

\* An invocation of processJobs that met a failed call has returned.
ErroredTickOver == \E t \in TickIds : ticks[t].pc = "done" /\ ticks[t].faulted

\* The model has an invocation slot left for one more tick.
SlotLeft == FreeTicks # {} /\ InFlight < MaxInFlight

\* C17: no failure inside a tick stops the scheduler.  No step of a tick,
\* failing or not, changes isRunning or the timer; and whenever an errored
\* tick is over on a running scheduler the timer is armed and its next
\* firing starts a new tick.
C17_ErrorsNeverStopScheduler ==
  /\ [][\A t \in TickIds :
          ticks[t].pc \notin {"idle", "done"} /\ ticks'[t] # ticks[t]
            => UNCHANGED <<isRunning, processingInterval, timers>>]_vars
  /\ [](ErroredTickOver /\ isRunning =>
          /\ processingInterval /\ timers = 1
          /\ SlotLeft => ENABLED (IntervalFire /\ ticks' # ticks))

\* C17 witness: the first tick has ended on an error, the scheduler is still
\* running with its timer armed, and the firing after it has started the
\* second tick.
C17_Witness ==
  /\ ticks[1].pc = "done" /\ ticks[1].faulted
  /\ isRunning /\ timers = 1
  /\ ticks[2].pc = "ensureS3Setup"

\* C18: start() is idempotent.  A call on a running scheduler arms no second
\* timer and begins no tick, and however often start() has been called a
\* running scheduler has exactly one timer armed.
C18_StartIdempotent ==
  /\ [][isRunning /\ Start =>
          UNCHANGED <<isRunning, processingInterval, timers, ticks>>]_vars
  /\ [](/\ timers <= 1
        /\ isRunning => processingInterval /\ timers = 1)

\* C18 witness: a running scheduler whose first tick is over and whose
\* second has not begun, with its one timer armed: start() is callable here
\* and changes nothing.
C18_Witness ==
  /\ isRunning /\ timers = 1
  /\ ticks[1].pc = "done" /\ ticks[2].pc = "idle"
  /\ ENABLED Start

\* This step begins a tick: an invocation of processJobs passes its
\* isRunning test and waits in ensureS3Setup.
BeginsTick ==
  \E t \in TickIds : ticks[t].pc = "idle" /\ ticks'[t].pc = "ensureS3Setup"

\* C19: start() on a stopped scheduler begins the first tick at once, in the
\* call that arms the timer and so before any firing of it; and every firing
\* of the timer on a running scheduler begins a tick.
C19_StartRunsFirstTick ==
  /\ [][~isRunning /\ isRunning' =>
          /\ BeginsTick
          /\ timers = 0 /\ timers' = 1]_vars
  /\ [][isRunning /\ IntervalFire => BeginsTick]_vars

\* C19 witness: start() has just been called on the stopped scheduler: the
\* first tick is at its first await, the timer is armed and has not fired.
C19_Witness ==
  /\ isRunning /\ timers = 1
  /\ ticks[1].pc = "ensureS3Setup" /\ ticks[2].pc = "idle"

\* The next step of the invocation t of processJobs, whichever await it is at.
TickStep(t) ==
  \/ EnsureS3Setup(t)
  \/ SelectJobs(t)
  \/ CheckStatus(t)
  \/ GetResult(t)
  \/ UploadTranscript(t)
  \/ UpdateEntryCompleted(t)
  \/ UpdateJobCompleted(t)
  \/ UpdateJobFailed(t)
  \/ UpdateEntryFailed(t)
  \/ AfterCatchJob(t)
  \/ SelectEntries(t)
  \/ MarkProcessing(t)
  \/ GetSubjects(t)
  \/ GetTranscript(t)
  \/ Analyze(t)
  \/ UploadSummary(t)
  \/ UpdateAnalysisCompleted(t)
  \/ MarkAnalysisFailed(t)
  \/ AfterCatchEntry(t)

\* C20: after stop() no new tick begins until start() is called; a tick in
\* progress when the scheduler is stopped can still take each of its
\* remaining steps; and stop() on a stopped or never started scheduler is
\* possible and leaves the same stopped state, with no timer armed.
C20_StopLetsTickFinish ==
  /\ [][~isRunning' => ~BeginsTick]_vars
  /\ [][~isRunning /\ Stop => UNCHANGED vars]_vars
  /\ [](~isRunning =>
          /\ ~processingInterval /\ timers = 0
          /\ ENABLED Stop
          /\ \A t \in TickIds :
               ticks[t].pc \notin {"idle", "done"} => ENABLED TickStep(t))

\* C20 witness: the scheduler was stopped while its tick was in progress, and
\* the tick is now at the UPDATE that records a completed transcription.
C20_Witness ==
  /\ ~isRunning /\ timers = 0
  /\ ticks[1].pc = "updateEntryCompleted"
  /\ ENABLED UpdateEntryCompleted(1)

\* C21: every call of forceRun() runs a tick, whether or not start() has been
\* called and whether or not the scheduler has been stopped: in every state
\* with an invocation slot left, the call begins a tick.
C21_ForceRunAlwaysRuns ==
  SlotLeft => ENABLED (ForceRun /\ BeginsTick)

\* The awaits of processCompletedJobs and of processCompletedTranscriptions.
TranscriptionPcs == {"selectJobs", "checkStatus", "getResult", "uploadTranscript",
                     "updateEntryCompleted", "updateJobCompleted",
                     "updateJobFailed", "updateEntryFailed", "catchJob"}
AnalysisPcs == {"selectEntries", "markProcessing", "getSubjects", "getTranscript",
                "analyze", "uploadSummary", "updateAnalysisCompleted",
                "markAnalysisFailed", "catchEntry"}

\* The step of processJobs an invocation is in: not begun, the bucket check,
\* the transcription reconciliation, the analysis reconciliation, over.
StepOf(pc) ==
  IF pc = "idle" THEN 0
  ELSE IF pc = "ensureS3Setup" THEN 1
  ELSE IF pc \in TranscriptionPcs THEN 2
  ELSE IF pc \in AnalysisPcs THEN 3
  ELSE 4

\* The invocation t returns in this step, and no other invocation of
\* processJobs has been made: what the ticks have written, t has written.
OnlyTickEnds(t) ==
  /\ ticks[t].pc # "done" /\ ticks'[t].pc = "done"
  /\ \A u \in TickIds \ {t} : ticks[u].pc = "idle"

\* C22: a tick performs the bucket check, the transcription reconciliation
\* and the analysis reconciliation in this order; the bucket check, failed or
\* not, is followed by the transcription reconciliation; and an entry whose
\* transcription a tick has completed has been analysed when that tick ends.
C22_ThreeStepsInOrder ==
  /\ [][\A t \in TickIds : ticks'[t] # ticks[t] =>
          /\ StepOf(ticks'[t].pc) >= StepOf(ticks[t].pc)
          /\ StepOf(ticks'[t].pc) \in {2, 3} =>
               StepOf(ticks[t].pc) \in {StepOf(ticks'[t].pc) - 1, StepOf(ticks'[t].pc)}
          /\ ticks[t].pc = "ensureS3Setup" => ticks'[t].pc = "selectJobs"]_vars
  /\ [][\A t \in TickIds : OnlyTickEnds(t) =>
          \A e \in EntryIds :
            entries'[e].transcription_status = "completed" => calls'[e] >= 1]_vars

\* ------------------------------------------------------- the server at work
\* The server as it is deployed: the entry point starts the scheduler
\* (scheduler.start(intervalMs) in the listen callback) and nothing stops it;
\* the interval is long against a tick, so a firing finds the last
\* invocation of processJobs returned.
Alone == \A t \in TickIds : ticks[t].pc = "idle"

\* The promise of the invocation t has settled; nothing refers to it any more.
Returned(t) ==
  /\ ticks[t].pc = "done"
  /\ ticks' = [ticks EXCEPT ![t] = IdleTick]
  /\ UNCHANGED <<entries, jobs, blobs, prov, calls, clock, faults, wasFailed, TickFrame>>

\* The next step of the POST /upload handler that drew the entry id e.
UploadStep(e) ==
  \/ \E u \in Users : UploadAudio(e, u)
  \/ UploadInsertEntry(e)
  \/ UploadStartJob(e)
  \/ UploadInsertJob(e)
  \/ UploadUpdateEntry(e)
  \/ UploadMarkFailed(e)

NextLive ==
  \/ \E e \in EntryIds : ProviderFinish(e)
  \/ \E e \in EntryIds, u \in Users : UploadAudio(e, u)
  \/ \E e \in EntryIds : UploadInsertEntry(e)
  \/ \E e \in EntryIds : UploadStartJob(e)
  \/ \E e \in EntryIds : UploadInsertJob(e)
  \/ \E e \in EntryIds : UploadUpdateEntry(e)
  \/ \E e \in EntryIds : UploadMarkFailed(e)
  \/ Start /\ Alone
  \/ IntervalFire /\ Alone
  \/ \E t \in TickIds : TickStep(t)
  \/ \E t \in TickIds : Returned(t)

\* What the event loop and the provider guarantee: a timer that is armed
\* fires, an awaited call settles, a submitted job finishes.  Failed calls
\* are bounded by MaxFaults, so every call succeeds in the end.
Fairness ==
  /\ WF_vars(Start /\ Alone)
  /\ WF_vars(IntervalFire /\ Alone)
  /\ \A t \in TickIds : WF_vars(TickStep(t)) /\ WF_vars(Returned(t))
  /\ \A e \in EntryIds : WF_vars(UploadStep(e)) /\ WF_vars(ProviderFinish(e))

SpecLive == Init /\ [][NextLive]_vars /\ Fairness

\* C23: under a running scheduler no entry stays in transcription_status
\* pending for ever: a tick hands it to startTranscriptionJob.
C23_PendingIsStarted ==
  \A e \in EntryIds :
    (entries[e].present /\ entries[e].transcription_status = "pending")
      ~> (entries[e].transcription_status # "pending")

\* C24: under a running scheduler whose timer keeps firing, with calls that
\* succeed in the end, an entry whose job Amazon Transcribe reports COMPLETED
\* or FAILED comes to transcription_status completed or failed, and an entry
\* with transcription_status completed comes to analysis_status completed or
\* failed.
C24_DrivenToTerminal ==
  \A e \in EntryIds :
    /\ (prov[e].status \in {"COMPLETED", "FAILED"})
          ~> (entries[e].transcription_status \in Terminal)
    /\ (entries[e].transcription_status = "completed")
          ~> (entries[e].analysis_status \in Terminal)

\* ------------------------------------------------------- crash and restart
\* The server process ends: the handlers and the invocations of processJobs
\* in flight are gone with the scheduler object, the stores and the provider
\* keep their state.  The entry point of the new process starts the
\* scheduler again (Start).
Crash ==
  /\ crashes < MaxCrashes
  /\ crashes' = crashes + 1
  /\ up' = [e \in EntryIds |->
             IF up[e].pc \in {"none", "r201", "r500", "lost"} THEN up[e]
             ELSE [up[e] EXCEPT !.pc = "lost"]]
  /\ ticks' = [t \in TickIds |-> IdleTick]
  /\ isRunning' = FALSE
  /\ processingInterval' = FALSE
  /\ timers' = 0
  /\ UNCHANGED <<entries, jobs, blobs, prov, clock, calls, faults, wasFailed, conf, runs, acc,
                 del>>

\* The crash is the only thing that goes wrong: every call succeeds and
\* every transcript file parses.
NoOtherFailure ==
  /\ faults' = faults
  /\ \A e \in EntryIds : prov'[e].payload # "malformed"

NextRestart ==
  \/ \E e \in EntryIds : ProviderFinish(e) /\ NoOtherFailure
  \/ \E e \in EntryIds, u \in Users : UploadAudio(e, u) /\ NoOtherFailure
  \/ \E e \in EntryIds : UploadInsertEntry(e) /\ NoOtherFailure
  \/ \E e \in EntryIds : UploadStartJob(e) /\ NoOtherFailure
  \/ \E e \in EntryIds : UploadInsertJob(e) /\ NoOtherFailure
  \/ \E e \in EntryIds : UploadUpdateEntry(e) /\ NoOtherFailure
  \/ \E e \in EntryIds : UploadMarkFailed(e) /\ NoOtherFailure
  \/ Start /\ Alone
  \/ IntervalFire /\ Alone
  \/ \E t \in TickIds : TickStep(t) /\ NoOtherFailure
  \/ \E t \in TickIds : Returned(t)
  \/ Crash

FairnessRestart ==
  /\ WF_vars(Start /\ Alone)
  /\ WF_vars(IntervalFire /\ Alone)
  /\ \A t \in TickIds : WF_vars(TickStep(t) /\ NoOtherFailure) /\ WF_vars(Returned(t))
  /\ \A e \in EntryIds : /\ WF_vars(UploadStep(e) /\ NoOtherFailure)
                          /\ WF_vars(ProviderFinish(e) /\ NoOtherFailure)

SpecRestart == Init /\ [][NextRestart]_vars /\ FairnessRestart

\* t is polling the transcription job of the entry e.
Polls(t, e) == ticks[t].pc = "checkStatus" /\ Job(t).entry_id = e

\* C25: a crash followed by a restart loses no work.  A transcription job
\* left in processing is polled again by a tick of the new process (unless
\* the tick that was handling it has meanwhile recorded its outcome), and no
\* entry stays for ever in the pending or processing status, of either
\* stage, that it had after the crash.
C25_CrashLosesNoWork ==
  \A e \in EntryIds :
    /\ (crashes > 0 /\ ProcessingJobsOf(e) # {})
          ~> ((\E t \in TickIds : Polls(t, e)) \/ ProcessingJobsOf(e) = {})
    /\ \A s \in {"pending", "processing"} :
         /\ (crashes > 0 /\ entries[e].present
                /\ entries[e].transcription_status = s)
              ~> (entries[e].transcription_status # s)
         /\ (crashes > 0 /\ entries[e].transcription_status = "completed"
                /\ entries[e].analysis_status = s)
              ~> (entries[e].analysis_status # s)

\* A tick polls, or writes the outcome of, the transcription job of entry e.
HandlesTranscription(t, e) ==
  /\ ticks[t].pc \in {"checkStatus", "getResult", "uploadTranscript",
                      "updateEntryCompleted", "updateJobCompleted"}
  /\ Job(t).entry_id = e
  /\ ticks'[t] # ticks[t]

\* C26: a failed stage is never retried.  Once transcription_status is
\* failed no tick polls or completes the entry's transcription and the
\* status stays failed; once analysis_status is failed the Analysis Provider
\* is not invoked for the entry again.
C26_FailedIsNotRetried ==
  [][\A e \in EntryIds :
       /\ entries[e].transcription_status = "failed" =>
            /\ \A t \in TickIds : ~HandlesTranscription(t, e)
            /\ entries'[e].transcription_status = "failed"
       /\ entries[e].analysis_status = "failed" => calls'[e] = calls[e]]_vars

\* ----------------------------------------------- calculateAverageConfidence
\* Confidence values are counted in tenths (9 is 0.9).  An item of the
\* transcript is a spoken token with an alternative that carries a
\* confidence, an alternative without one (Absent), or no alternative.
MaxItems == 3
ConfidenceTenths == {0, 7, 8, 9, 10}
Absent == 0 - 1

Items == [alt : {TRUE}, confidence : ConfidenceTenths \cup {Absent}]
           \cup {[alt |-> FALSE, confidence |-> Absent]}

RECURSIVE SeqsUpTo(_)
SeqsUpTo(n) ==
  IF n = 0 THEN {<<>>}
  ELSE LET shorter == SeqsUpTo(n - 1)
       IN shorter \cup {Append(q, i) : q \in {x \in shorter : Len(x) = n - 1}, i \in Items}

\* parseFloat(item.alternatives[0].confidence) || 0, in tenths.
ParsedOrZero(item) == IF item.confidence = Absent THEN 0 ELSE item.confidence

\* reduce((acc, val) => acc + val, 0).
RECURSIVE Reduce(_)
Reduce(vals) == IF vals = <<>> THEN 0 ELSE Head(vals) + Reduce(Tail(vals))

\* filter(item => item.alternatives && item.alternatives[0]).map(...).
HasAlternative(item) == item.alt

RECURSIVE MapParsed(_)
MapParsed(q) == IF q = <<>> THEN <<>> ELSE <<ParsedOrZero(Head(q))>> \o MapParsed(Tail(q))

\* Variant that returns the mean as it is, not as a percentage.
calculateAverageConfidence_Fraction(items) ==
  IF Len(items) = 0 THEN [num |-> 0, den |-> 1]
  ELSE LET confidenceValues == MapParsed(SelectSeq(items, HasAlternative))
       IN IF Len(confidenceValues) = 0 THEN [num |-> 0, den |-> 1]
          ELSE [num |-> Reduce(confidenceValues),
                den |-> Len(confidenceValues) * 10]

\* (sum / confidenceValues.length) * 100, as the exact fraction num / den.
calculateAverageConfidence(items) ==
  IF Len(items) = 0 THEN [num |-> 0, den |-> 1]
  ELSE LET confidenceValues == MapParsed(SelectSeq(items, HasAlternative))
       IN IF Len(confidenceValues) = 0 THEN [num |-> 0, den |-> 1]
          ELSE [num |-> Reduce(confidenceValues) * 100,
                den |-> Len(confidenceValues) * 10]

InitConfidence ==
  /\ InitPipeline
  /\ conf \in [items : SeqsUpTo(MaxItems), result : {NoResult}]
  /\ runs = NoRuns

\* getTranscriptionResult computes the confidence of the transcript.
Calculate ==
  /\ conf.result = NoResult
  /\ conf' = [conf EXCEPT !.result = calculateAverageConfidence(conf.items)]
  /\ UNCHANGED <<entries, jobs, blobs, prov, clock, isRunning, processingInterval,
                 timers, ticks, up, calls, faults, wasFailed, crashes, runs, acc, del>>

SpecConfidence == InitConfidence /\ [][Calculate]_vars

\* Two fractions are the same number.
SameNumber(a, b) == a.num * b.den = b.num * a.den

\* The positions of the items whose confidence counts, and their sum.
Scored(items)     == {i \in 1..Len(items) : items[i].alt /\ items[i].confidence # Absent}
WithAlternative(items) == {i \in 1..Len(items) : items[i].alt}

RECURSIVE SumAt(_, _)
SumAt(items, S) ==
  IF S = {} THEN 0
  ELSE LET i == CHOOSE x \in S : TRUE
       IN ParsedOrZero(items[i]) + SumAt(items, S \ {i})

\* The arithmetic mean of the confidence values at the positions S, 0 when
\* there is none.
MeanAt(items, S) ==
  IF S = {} THEN [num |-> 0, den |-> 1]
  ELSE [num |-> SumAt(items, S), den |-> Cardinality(S) * 10]

DeleteFrame == <<prov, clock, isRunning, processingInterval, timers, ticks, up,
                 calls, wasFailed, crashes, conf, runs, acc>>

\* SELECT * FROM diary_entries WHERE id = entryId AND user_id = userId: the
\* row, if the caller u owns one of that id.
OwnRow(e, u) == entries[e].present /\ entries[e].user_id = u

\* Variant of the SELECT without its user_id test.
DeleteSelect_AnyUser(e, u) ==
  /\ del[e].pc = "none"
  /\ up[e].pc # "none"
  /\ \/ /\ Ok
        /\ del' = IF entries[e].present
                  THEN [del EXCEPT ![e].pc = "deleteRow", ![e].user_id = u,
                                   ![e].entry = entries[e]]
                  ELSE [del EXCEPT ![e].pc = "r404", ![e].user_id = u]
     \/ /\ Fail
        /\ del' = [del EXCEPT ![e].pc = "r500", ![e].user_id = u]
  /\ UNCHANGED <<entries, jobs, blobs, DeleteFrame>>

\* The caller u names an entry id an upload has drawn.  SELECT * FROM
\* diary_entries WHERE id = ? AND user_id = ?; no row: 404.
DeleteSelect(e, u) ==
  /\ del[e].pc = "none"
  /\ up[e].pc # "none"
  /\ \/ /\ Ok
        /\ del' = IF OwnRow(e, u)
                  THEN [del EXCEPT ![e].pc = "deleteRow", ![e].user_id = u,
                                   ![e].entry = entries[e]]
                  ELSE [del EXCEPT ![e].pc = "r404", ![e].user_id = u]
     \/ /\ Fail
        /\ del' = [del EXCEPT ![e].pc = "r500", ![e].user_id = u]
  /\ UNCHANGED <<entries, jobs, blobs, DeleteFrame>>

\* ON DELETE CASCADE of processing_jobs.entry_id.
Cascade(e) == [j \in DOMAIN jobs |-> IF jobs[j].entry_id = e THEN NoJob ELSE jobs[j]]

\* DELETE FROM diary_entries WHERE id = ? AND user_id = ?.  The connection
\* is opened by getDatabase, which does not set PRAGMA foreign_keys: whether
\* the cascade runs is the default the SQLite library was built with.
DeleteRow(e) ==
  /\ del[e].pc = "deleteRow"
  /\ \/ /\ Ok
        /\ IF OwnRow(e, del[e].user_id)
           THEN /\ entries' = [entries EXCEPT ![e] = NoEntry]
                /\ \E foreignKeys \in BOOLEAN :
                     jobs' = IF foreignKeys THEN Cascade(e) ELSE jobs
           ELSE UNCHANGED <<entries, jobs>>
        /\ del' = [del EXCEPT ![e].pc = "deleteAudio"]
     \/ /\ Fail
        /\ del' = [del EXCEPT ![e].pc = "r500"]
        /\ UNCHANGED <<entries, jobs>>
  /\ UNCHANGED <<blobs, DeleteFrame>>

\* The key the handler is about to delete, and where it goes on.
KeyAt(e) ==
  IF del[e].pc = "deleteAudio" THEN del[e].entry.audio_s3_key
  ELSE IF del[e].pc = "deleteTranscript" THEN del[e].entry.raw_transcript_s3_key
  ELSE del[e].entry.structured_summary_s3_key

AfterKey(pc) ==
  IF pc = "deleteAudio" THEN "deleteTranscript"
  ELSE IF pc = "deleteTranscript" THEN "deleteSummary"
  ELSE "r200"

\* The three deleteFile calls inside one try block: a key that is null is
\* passed over, a deletion that fails throws into the catch, which logs, and
\* the handler answers 200.
DeleteFile(e) ==
  /\ del[e].pc \in {"deleteAudio", "deleteTranscript", "deleteSummary"}
  /\ IF KeyAt(e) = Nil
     THEN /\ del' = [del EXCEPT ![e].pc = AfterKey(del[e].pc)]
          /\ UNCHANGED <<blobs, faults>>
     ELSE \/ /\ Ok
             /\ blobs' = blobs \ {KeyAt(e)}
             /\ del' = [del EXCEPT ![e].pc = AfterKey(del[e].pc),
                                   ![e].attempted = @ \cup {KeyAt(e)}]
          \/ /\ Fail
             /\ del' = [del EXCEPT ![e].pc = "r200",
                                   ![e].attempted = @ \cup {KeyAt(e)}]
             /\ UNCHANGED blobs
  /\ UNCHANGED <<entries, jobs, DeleteFrame>>

\* No DELETE handler is between its first statement and its response.
DeleteQuiet == \A e \in EntryIds : del[e].pc \in {"none", "r200", "r404", "r500"}

\* No tick is under way.
BetweenTicks == \A t \in TickIds : ticks[t].pc \in {"idle", "done"}

\* The schedule of SpecInSuccession, with the deletions requested between
\* ticks and uploads and answered before the next of them begins.
Apart == InSuccession /\ DeleteQuiet

NextDelete ==
  \/ \E e \in EntryIds : ProviderFinish(e) /\ Apart
  \/ \E e \in EntryIds, u \in Users : UploadAudio(e, u) /\ Apart
  \/ \E e \in EntryIds : UploadInsertEntry(e) /\ Apart
  \/ \E e \in EntryIds : UploadStartJob(e) /\ Apart
  \/ \E e \in EntryIds : UploadInsertJob(e) /\ Apart
  \/ \E e \in EntryIds : UploadUpdateEntry(e) /\ Apart
  \/ \E e \in EntryIds : UploadMarkFailed(e) /\ Apart
  \/ Start /\ Apart
  \/ Stop /\ Apart
  \/ IntervalFire /\ Apart
  \/ ForceRun /\ Apart
  \/ \E t \in TickIds : EnsureS3Setup(t) /\ Apart
  \/ \E t \in TickIds : SelectJobs(t) /\ Apart
  \/ \E t \in TickIds : CheckStatus(t) /\ Apart
  \/ \E t \in TickIds : GetResult(t) /\ Apart
  \/ \E t \in TickIds : UploadTranscript(t) /\ Apart
  \/ \E t \in TickIds : UpdateEntryCompleted(t) /\ Apart
  \/ \E t \in TickIds : UpdateJobCompleted(t) /\ Apart
  \/ \E t \in TickIds : UpdateJobFailed(t) /\ Apart
  \/ \E t \in TickIds : UpdateEntryFailed(t) /\ Apart
  \/ \E t \in TickIds : AfterCatchJob(t) /\ Apart
  \/ \E t \in TickIds : SelectEntries(t) /\ Apart
  \/ \E t \in TickIds : MarkProcessing(t) /\ Apart
  \/ \E t \in TickIds : GetSubjects(t) /\ Apart
  \/ \E t \in TickIds : GetTranscript(t) /\ Apart
  \/ \E t \in TickIds : Analyze(t) /\ Apart
  \/ \E t \in TickIds : UploadSummary(t) /\ Apart
  \/ \E t \in TickIds : UpdateAnalysisCompleted(t) /\ Apart
  \/ \E t \in TickIds : MarkAnalysisFailed(t) /\ Apart
  \/ \E t \in TickIds : AfterCatchEntry(t) /\ Apart
  \/ \E e \in EntryIds, u \in Callers : DeleteSelect(e, u) /\ BetweenTicks /\ Quiet
  \/ \E e \in EntryIds : DeleteRow(e)
  \/ \E e \in EntryIds : DeleteFile(e)

SpecDelete == Init /\ [][NextDelete]_vars

\* The handler has deleted the row of the entry e.
RowDeleted(e) == del[e].pc \in {"deleteAudio", "deleteTranscript", "deleteSummary", "r200"}

\* C28: after an entry is deleted through DELETE /entries/:entryId no
\* processing_jobs row of that entry remains.
C28_DeleteRemovesJobs ==
  \A e \in EntryIds : RowDeleted(e) => \A j \in JobIds : jobs[j].entry_id # e

\* The blob keys the deleted row referred to.
KeysOf(row) == {row.audio_s3_key, row.raw_transcript_s3_key,
                row.structured_summary_s3_key} \ {Nil}

\* C29: deletion removes the entry row even when a blob deletion fails, and
\* attempts the deletion of each blob the entry referred to: when the
\* handler answers 200 the row is gone and deleteFile has been called for
\* the audio, the transcript and the summary.
C29_DeleteAttemptsEachBlob ==
  \A e \in EntryIds : del[e].pc = "r200" =>
    /\ ~entries[e].present
    /\ KeysOf(del[e].entry) \subseteq del[e].attempted

\* -------------------------------------------------------------- updated_at
\* The columns of diary_entries the pipeline writes.
PipelineColumns == {"transcription_status", "analysis_status",
                    "raw_transcript_s3_key", "structured_summary_s3_key"}

\* The step changes one of those columns in the row of the entry e.
Rewritten(e) ==
  /\ entries[e].present
  /\ entries'[e].present
  /\ \E c \in PipelineColumns : entries'[e][c] # entries[e][c]

\* C30: every pipeline write that changes an entry's transcription status,
\* analysis status, transcript key or summary key also advances the entry's
\* updated_at: after the write the column holds the time of the write.
C30_WritesAdvanceUpdatedAt ==
  [][\A e \in EntryIds : Rewritten(e) => entries'[e].updated_at = CurrentTimestamp']_vars

\* ------------------------------------------------ upload, failed submission
\* C31: a POST /upload whose transcription submission fails still creates
\* the entry row and answers 201: from the catch of startTranscriptionJob
\* the handler goes to the 201 response with the row of the entry in place.
C31_FailedSubmissionAnswers201 ==
  [][\A e \in EntryIds :
       up[e].pc = "markFailed" /\ up'[e] # up[e]
         => up'[e].pc = "r201" /\ entries'[e].present]_vars

\* An upload answered 201 whose submission Amazon Transcribe never accepted.
C31_Witness ==
  \E e \in EntryIds :
    /\ up[e].pc = "r201"
    /\ prov[e].status = "NONE"
    /\ entries[e].present
    /\ entries[e].transcription_status = "failed"

\* ------------------------------------------------- preferences and analysis
MaxSubjects == 2

\* Subjects a user can have enabled, and the styles the column can hold:
\* the three the routes accept and NULL.
Subjects == {"sleep", "mood"}
Null == "null"
InteractionStyles == {"minimal", "friendly", "reassuring", Null}

SubjectLists == UNION {[1..n -> Subjects] : n \in 0..MaxSubjects}
Preferences == [subjects : SubjectLists, interactionStyle : InteractionStyles]

\* toneMap[interactionStyle] || toneMap.friendly.
Tone(interactionStyle) ==
  IF interactionStyle \in {"minimal", "friendly", "reassuring"}
  THEN interactionStyle
  ELSE "friendly"

DefaultSubjects == <<"sleep", "food", "exercise", "wellness", "mood", "symptoms">>

\* buildSystemPrompt(subjects, interactionStyle): the tone and the subjects
\* written into the system prompt.
buildSystemPrompt(subjects, interactionStyle) ==
  [tone |-> Tone(interactionStyle),
   subjects |-> IF Len(subjects) > 0 THEN subjects ELSE DefaultSubjects]

\* analyzeHealthDiary(transcript, {subjects, interactionStyle}) when the
\* provider answers `response`: the prompt is sent, the answer decides.
analyzeHealthDiary(userPreferences, response) ==
  LET systemPrompt == buildSystemPrompt(userPreferences.subjects,
                                        userPreferences.interactionStyle)
  IN [sent |-> systemPrompt,
      success |-> response \in {"ok", "shape"},
      analysis |-> IF response = "ok" THEN "object"
                   ELSE IF response = "shape" THEN Null ELSE "undefined"]

\* Variant of the loop body that passes over an entry of a user with no
\* enabled subject.
AnalysisStage_NeedsSubjects(userPreferences, response) ==
  IF Len(userPreferences.subjects) = 0
  THEN [analysis_status |-> "pending", summary |-> FALSE]
  ELSE LET analysisResult == analyzeHealthDiary(userPreferences, response)
       IN IF analysisResult.success /\ analysisResult.analysis # Null
          THEN [analysis_status |-> "completed", summary |-> TRUE]
          ELSE [analysis_status |-> "failed", summary |-> FALSE]

\* The loop body of processCompletedTranscriptions for one entry when every
\* call to the stores resolves: success with an object stores the summary
\* and marks completed; success with null throws on reading its metadata and
\* the catch marks failed; success false marks failed.  summary: whether
\* structured_summary_s3_key is set.
AnalysisStage(userPreferences, response) ==
  LET analysisResult == analyzeHealthDiary(userPreferences, response)
  IN IF analysisResult.success /\ analysisResult.analysis # Null
     THEN [analysis_status |-> "completed", summary |-> TRUE]
     ELSE [analysis_status |-> "failed", summary |-> FALSE]

\* Two users' preferences and one provider response.
InitPreferences ==
  /\ InitPipeline
  /\ conf = [items |-> <<>>, result |-> NoResult]
  /\ runs \in [first : Preferences, second : Preferences,
                response : AnalysisResults, outcome : {<<>>}]

\* The entry is analysed once under each user's preferences.
AnalyseBoth ==
  /\ runs.outcome = <<>>
  /\ runs' = [runs EXCEPT !.outcome = <<AnalysisStage(runs.first, runs.response),
                                        AnalysisStage(runs.second, runs.response)>>]
  /\ UNCHANGED <<entries, jobs, blobs, prov, clock, isRunning, processingInterval,
                 timers, ticks, up, calls, faults, wasFailed, crashes, conf, acc, del>>

SpecPreferences == InitPreferences /\ [][AnalyseBoth]_vars

\* C32: the user's tone and topic configuration does not affect the control
\* flow of the analysis stage: two runs that differ only in interaction
\* style and subject list and get the same provider response end with the
\* same analysis status and both with or both without a summary key.
C32_PreferencesDoNotSteer ==
  runs.outcome # <<>> =>
    /\ runs.outcome[1].analysis_status = runs.outcome[2].analysis_status
    /\ runs.outcome[1].summary = runs.outcome[2].summary

\* Runs under different styles, one of them without enabled subjects, that
\* both stored a summary.
C32_Witness ==
  /\ runs.outcome # <<>>
  /\ runs.first.interactionStyle # runs.second.interactionStyle
  /\ runs.first.subjects = <<>>
  /\ runs.second.subjects # <<>>
  /\ runs.outcome[1].analysis_status = "completed"
  /\ runs.outcome[2].summary

\* ------------------------------------------------------ job still running
\* Where an invocation is when it records the outcome of the job it polled.
OutcomePcs == {"getResult", "uploadTranscript", "updateEntryCompleted",
               "updateJobCompleted", "updateJobFailed", "updateEntryFailed"}

StillRunning(j) == prov[j].status \notin {"COMPLETED", "FAILED"}

\* C33: when Amazon Transcribe reports a job as still running, the
\* reconciliation leaves the job row, the entry row and the blobs as they
\* are: the poll changes none of them, and an invocation is at the
\* statements that record an outcome only for a job reported COMPLETED or
\* FAILED.
C33_StillRunningChangesNothing ==
  /\ [](\A t \in TickIds :
         ticks[t].pc \in OutcomePcs => ~StillRunning(Job(t).aws_job_id))
  /\ [][\A t \in TickIds :
         /\ ticks[t].pc = "checkStatus"
         /\ ticks'[t] # ticks[t]
         /\ StillRunning(Job(t).aws_job_id)
         => /\ UNCHANGED <<entries, jobs, blobs>>
            /\ ticks'[t].pc \notin OutcomePcs]_vars

\* An invocation that selected two jobs has polled the first, which is
\* still running, and gone on to the second.
C33_Witness ==
  \E t \in TickIds :
    /\ ticks[t].pc = "checkStatus"
    /\ ~ticks[t].faulted
    /\ Job(t).entry_id = 2
    /\ Len(jobs) = 2
    /\ jobs[1].entry_id = 1
    /\ jobs[1].status = "processing"
    /\ entries[1].transcription_status = "processing"
    /\ prov[1].status = "IN_PROGRESS"

\* ------------------------------------------------------------ error_message
\* C34: in every reachable state a processing_jobs row has an error_message
\* only if its status is failed.
C34_ErrorMessageOnlyOnFailure ==
  \A j \in JobIds : jobs[j].error_message # NoReason => jobs[j].status = "failed"

\* A job row that holds the failure reason Amazon Transcribe reported.
C34_Witness ==
  \E j \in JobIds : jobs[j].error_message # NoReason /\ jobs[j].status = "failed"

\* ------------------------------------------------- entries and their jobs
\* The transcription jobs of the entry e that are in the status st.
JobsOf(e, st) ==
  {j \in JobIds : /\ jobs[j].entry_id = e
                  /\ jobs[j].job_type = "transcription"
                  /\ jobs[j].status = st}

\* C35: in every state in which no tick and no upload is in the middle of
\* its work, every entry whose transcription status is processing has a
\* transcription job in the status processing, and every such job belongs
\* to an entry whose transcription status is processing.
C35_ProcessingEntryHasProcessingJob ==
  Quiet /\ BetweenTicks =>
    \A e \in EntryIds :
      /\ entries[e].present /\ entries[e].transcription_status = "processing"
           => JobsOf(e, "processing") # {}
      /\ JobsOf(e, "processing") # {}
           => entries[e].present /\ entries[e].transcription_status = "processing"

\* C36: in every reachable state a transcription job whose status is
\* completed belongs to an entry whose transcription status is completed.
C36_CompletedJobHasCompletedEntry ==
  \A e \in EntryIds :
    JobsOf(e, "completed") # {}
      => entries[e].present /\ entries[e].transcription_status = "completed"

\* ---------------------------------------------------------------- blob keys
\* C37: two distinct entries never hold the same transcript key or the same
\* summary key, two entries of one owner whose results are committed at the
\* same reading of the clock included.
C37_KeysAreDistinct ==
  \A e1, e2 \in EntryIds :
    e1 # e2 /\ entries[e1].present /\ entries[e2].present =>
      /\ entries[e1].raw_transcript_s3_key # Nil
           => entries[e1].raw_transcript_s3_key # entries[e2].raw_transcript_s3_key
      /\ entries[e1].structured_summary_s3_key # Nil
           => entries[e1].structured_summary_s3_key # entries[e2].structured_summary_s3_key

\* ---------------------------------------------------------------- getStatus
\* getStatus(): isRunning and hasInterval.
getStatus == [isRunning |-> isRunning, hasInterval |-> processingInterval]

\* C38: after any sequence of start() and stop() calls getStatus reports
\* isRunning true exactly when an interval timer is armed: isRunning and
\* hasInterval agree, and the scheduler holds a timer exactly when a timer
\* is armed.
C38_RunningIffTimerArmed ==
  /\ getStatus.isRunning = getStatus.hasInterval
  /\ getStatus.isRunning <=> timers > 0

\* A started scheduler: the first tick begun, one timer armed.
C38_Witness ==
  /\ getStatus.isRunning
  /\ timers = 1
  /\ \E t \in TickIds : ticks[t].pc # "idle"

\* ------------------------------------- GET /entries/:entryId and follow-up
AccessFrame == <<entries, jobs, blobs, prov, clock, isRunning, processingInterval,
                 timers, ticks, up, calls, wasFailed, crashes, conf, runs, del>>

AccessQuiet == acc = NoAccess

\* GET /entries/:entryId by the caller u: SELECT * FROM diary_entries WHERE
\* id = ? AND user_id = ?; no row: 404.
GetSelect(e, u) ==
  /\ AccessQuiet
  /\ up[e].pc # "none"
  /\ \/ /\ Ok
        /\ acc' = IF OwnRow(e, u)
                  THEN [route |-> "get", id |-> e, user_id |-> u, pc |-> "content",
                        entry |-> entries[e]]
                  ELSE [NoAccess EXCEPT !.route = "get", !.id = e, !.user_id = u,
                                        !.pc = "r404"]
     \/ /\ Fail
        /\ acc' = [NoAccess EXCEPT !.route = "get", !.id = e, !.user_id = u,
                                   !.pc = "r500"]
  /\ UNCHANGED AccessFrame

\* The transcript, the summary and the audio URL are fetched inside a try
\* whose catch goes on without them; the row is sent.
GetContent ==
  /\ acc.route = "get"
  /\ acc.pc = "content"
  /\ Ok \/ Fail
  /\ acc' = [acc EXCEPT !.pc = "r200"]
  /\ UNCHANGED AccessFrame

\* POST /entries/:entryId/follow-up by the caller u: SELECT de.* ... WHERE
\* de.id = ? AND de.user_id = ?; no row: 404; analysis not completed: 400.
FollowUpSelect(e, u) ==
  /\ AccessQuiet
  /\ up[e].pc # "none"
  /\ \/ /\ Ok
        /\ acc' = IF ~OwnRow(e, u)
                  THEN [NoAccess EXCEPT !.route = "followUp", !.id = e, !.user_id = u,
                                        !.pc = "r404"]
                  ELSE [route |-> "followUp", id |-> e, user_id |-> u,
                        pc |-> IF \/ entries[e].analysis_status # "completed"
                                  \/ entries[e].structured_summary_s3_key = Nil
                               THEN "r400" ELSE "subjects",
                        entry |-> entries[e]]
     \/ /\ Fail
        /\ acc' = [NoAccess EXCEPT !.route = "followUp", !.id = e, !.user_id = u,
                                   !.pc = "r500"]
  /\ UNCHANGED AccessFrame

\* SELECT subject FROM user_subjects WHERE user_id = ? AND enabled = 1.
FollowUpSubjects ==
  /\ acc.route = "followUp"
  /\ acc.pc = "subjects"
  /\ \/ /\ Ok
        /\ acc' = [acc EXCEPT !.pc = "questions"]
     \/ /\ Fail
        /\ acc' = [acc EXCEPT !.pc = "r500"]
  /\ UNCHANGED AccessFrame

\* The summary and the transcript are read from S3 and the questions asked
\* of the provider: 200 with the questions, or 500 when a blob is missing
\* or a call fails.
FollowUpQuestions ==
  /\ acc.route = "followUp"
  /\ acc.pc = "questions"
  /\ \E r \in {"r200", "r500"} :
       /\ r = "r200" => {acc.entry.structured_summary_s3_key,
                         acc.entry.raw_transcript_s3_key} \subseteq blobs
       /\ acc' = [acc EXCEPT !.pc = r]
  /\ UNCHANGED <<faults, AccessFrame>>

\* The response has been sent.
AccessReturned ==
  /\ acc.pc \in {"r200", "r400", "r404", "r500"}
  /\ acc' = NoAccess
  /\ UNCHANGED <<faults, AccessFrame>>

\* The schedule of SpecDelete with the two reading routes, called between
\* ticks, uploads and deletions and answered before the next of them begins;
\* the calls that fail are those of the three entry routes.
Aside == Apart /\ AccessQuiet /\ faults' = faults

NextAccess ==
  \/ \E e \in EntryIds : ProviderFinish(e) /\ Aside
  \/ \E e \in EntryIds, u \in Users : UploadAudio(e, u) /\ Aside
  \/ \E e \in EntryIds : UploadInsertEntry(e) /\ Aside
  \/ \E e \in EntryIds : UploadStartJob(e) /\ Aside
  \/ \E e \in EntryIds : UploadInsertJob(e) /\ Aside
  \/ \E e \in EntryIds : UploadUpdateEntry(e) /\ Aside
  \/ \E e \in EntryIds : UploadMarkFailed(e) /\ Aside
  \/ Start /\ Aside
  \/ Stop /\ Aside
  \/ IntervalFire /\ Aside
  \/ ForceRun /\ Aside
  \/ \E t \in TickIds : EnsureS3Setup(t) /\ Aside
  \/ \E t \in TickIds : SelectJobs(t) /\ Aside
  \/ \E t \in TickIds : CheckStatus(t) /\ Aside
  \/ \E t \in TickIds : GetResult(t) /\ Aside
  \/ \E t \in TickIds : UploadTranscript(t) /\ Aside
  \/ \E t \in TickIds : UpdateEntryCompleted(t) /\ Aside
  \/ \E t \in TickIds : UpdateJobCompleted(t) /\ Aside
  \/ \E t \in TickIds : UpdateJobFailed(t) /\ Aside
  \/ \E t \in TickIds : UpdateEntryFailed(t) /\ Aside
  \/ \E t \in TickIds : AfterCatchJob(t) /\ Aside
  \/ \E t \in TickIds : SelectEntries(t) /\ Aside
  \/ \E t \in TickIds : MarkProcessing(t) /\ Aside
  \/ \E t \in TickIds : GetSubjects(t) /\ Aside
  \/ \E t \in TickIds : GetTranscript(t) /\ Aside
  \/ \E t \in TickIds : Analyze(t) /\ Aside
  \/ \E t \in TickIds : UploadSummary(t) /\ Aside
  \/ \E t \in TickIds : UpdateAnalysisCompleted(t) /\ Aside
  \/ \E t \in TickIds : MarkAnalysisFailed(t) /\ Aside
  \/ \E t \in TickIds : AfterCatchEntry(t) /\ Aside
  \/ \E e \in EntryIds, u \in Callers : DeleteSelect(e, u) /\ BetweenTicks /\ Quiet /\ AccessQuiet
  \/ \E e \in EntryIds : DeleteRow(e)
  \/ \E e \in EntryIds : DeleteFile(e)
  \/ \E e \in EntryIds, u \in Callers :
       GetSelect(e, u) /\ BetweenTicks /\ Quiet /\ DeleteQuiet
  \/ GetContent
  \/ \E e \in EntryIds, u \in Callers :
       FollowUpSelect(e, u) /\ BetweenTicks /\ Quiet /\ DeleteQuiet
  \/ FollowUpSubjects
  \/ FollowUpQuestions
  \/ AccessReturned

SpecAccess == Init /\ [][NextAccess]_vars

\* The entry e exists and belongs to another user than u.
Foreign(e, u) == entries[e].present /\ entries[e].user_id # u

\* A handler past its SELECT holds a row of its caller.
HoldsOwnRow ==
  /\ acc.pc \notin {"none", "r404", "r500"}
       => acc.entry.present /\ acc.entry.user_id = acc.user_id
  /\ \A e \in EntryIds :
       del[e].pc \notin {"none", "r404", "r500"}
         => del[e].entry.present /\ del[e].entry.user_id = del[e].user_id

\* A request for another user's entry is answered with one of `codes`.
RefusedWith(codes) ==
  /\ acc.route # "none" /\ Foreign(acc.id, acc.user_id) => acc.pc \in codes
  /\ \A e \in EntryIds :
       del[e].pc # "none" /\ Foreign(e, del[e].user_id) => del[e].pc \in codes

\* A step of a request for another user's entry changes no row and no blob.
ForeignChangesNothing ==
  (\/ acc' # acc /\ acc'.route # "none" /\ Foreign(acc'.id, acc'.user_id)
   \/ \E e \in EntryIds : del'[e] # del[e] /\ Foreign(e, del'[e].user_id))
    => UNCHANGED <<entries, jobs, blobs>>

====
